---- MODULE Spec2Model ----
(***************************************************************************)
(* Model of the relay bot in src/main.py: the handler of inbound messages  *)
(* (handle_new_message), the filter (should_forward), the text cleaning    *)
(* (clean_message_text, remove_forbidden_words), the dispatcher            *)
(* (forward_message), the queue drain task (process_queue) and the handler *)
(* of connection-state events (handle_raw), run by one asyncio event loop. *)
(*                                                                         *)
(* One action is one run of a coroutine between two suspension points.     *)
(* The event loop may run any ready coroutine next, and a timed wait may   *)
(* end late, never early.                                                  *)
(***************************************************************************)
EXTENDS Integers, Sequences, FiniteSets, TLC

\* ------------------------------------------------------------------ bounds
\* Number of inbound events a run handles (admitted or skipped).
MaxMsgs == 3
\* The same for the runs in which every send succeeds.
MaxMsgsDeep == 4
\* The same for the runs with two and three destinations.
MaxMsgsFanout == 2
\* The same for the runs over texts that the cleaning changes.
MaxMsgsText == 2
\* The same for the runs with connection-state events, and the number of
\* disconnect events in them.
MaxMsgsConn == 2
MaxRaw == 2
\* time.time() when the process starts.
StartTime == 3
\* Seconds after the start during which messages arrive; the clock is exact
\* up to StartTime + MaxTime and stands still there, the sleeps run on.
MaxTime == 4

\* ----------------------------------------------------------- configuration
\* QUEUE_DELAY and RATE_LIMIT are environment settings (defaults 120 and 60);
\* the model runs the configuration QUEUE_DELAY=4, RATE_LIMIT=2, which keeps
\* the default's order rate_limit < queue_delay.
queue_delay == 4
rate_limit == 2
\* asyncio.sleep(1) after a send that succeeded, asyncio.sleep(3) after one
\* that raised.
SendPause == 1
FailPause == 3
\* asyncio.sleep(5) before client.connect().
ReconnectDelay == 5
\* TARGET_CHANNELS as configured: a non-empty list.
OneChannel == <<1>>
TwoChannels == <<1, 2>>
ThreeChannels == <<1, 2, 3>>

\* Ids of the admitted messages, in arrival order.
Msgs ==
    1..(CHOOSE n \in {MaxMsgs, MaxMsgsDeep, MaxMsgsFanout, MaxMsgsText, MaxMsgsConn} :
            \A k \in {MaxMsgs, MaxMsgsDeep, MaxMsgsFanout, MaxMsgsText, MaxMsgsConn} : k <= n)
\* Ids of the handle_raw invocations that see a disconnect.
Raws == 1..MaxRaw

\* ------------------------------------------------------------------- texts
\* A text is a sequence of one-character strings.
UpperCase ==
    << "A", "B", "C", "D", "E", "F", "G", "H", "I", "J", "K", "L", "M",
       "N", "O", "P", "Q", "R", "S", "T", "U", "V", "W", "X", "Y", "Z" >>
LowerCase ==
    << "a", "b", "c", "d", "e", "f", "g", "h", "i", "j", "k", "l", "m",
       "n", "o", "p", "q", "r", "s", "t", "u", "v", "w", "x", "y", "z" >>

\* str.lower() on one character.
LowerChar(c) ==
    IF \E i \in 1..Len(UpperCase) : UpperCase[i] = c
    THEN LowerCase[CHOOSE i \in 1..Len(UpperCase) : UpperCase[i] = c]
    ELSE c

\* str.lower()
Lower(text) == [i \in 1..Len(text) |-> LowerChar(text[i])]

\* term in text (substring containment)
Contains(text, term) ==
    \E i \in 0..(Len(text) - Len(term)) :
        SubSeq(text, i + 1, i + Len(term)) = term

valid_numbers ==
    << <<"U", "S", "D", "T">>, <<"P", "r", "o", "v", "i", "d", "e", "d">>,
       <<"5", "9", "9">>, <<"6", "6", "6">>, <<"7", "0", "0">>, <<"7", "7", "7">>,
       <<"8", "8", "8">>, <<"8", "9", "9">>, <<"9", "9", "9">>,
       <<"1", "0", "0", "0">>, <<"1", "1", "1", "1">>, <<"1", "2", "0", "0">>,
       <<"1", "5", "0", "0">>, <<"1", "9", "9", "9">>, <<"1", "8", "8", "8">>,
       <<"2", "0", "0", "0">>, <<"2", "5", "0", "0">>, <<"2", "7", "7", "7">>,
       <<"2", "8", "8", "8">>, <<"2", "9", "9", "9">>, <<"3", "0", "0", "0">>,
       <<"3", "1", "0", "0">>, <<"3", "3", "0", "0">>, <<"3", "3", "3", "3">>,
       <<"3", "5", "0", "0">>, <<"3", "7", "8", "6">>, <<"4", "0", "0", "0">>,
       <<"4", "4", "4", "4">>, <<"4", "5", "0", "0">>, <<"5", "0", "0", "0">>,
       <<"5", "5", "0", "0">>, <<"5", "5", "5", "5">>, <<"6", "0", "0", "0">>,
       <<"6", "6", "6", "6">>, <<"1", "0", "0", "0", "0">> >>

forbidden_terms ==
    << <<"h", "t", "t", "p">>, <<"t", ".", "m", "e">>, <<"@">>,
       <<"t", "h", "x">>, <<"t", "h", "x", "b", "o", "x">>,
       <<"a", "g", "e", "l", "i", "a", "_", "q", "u", "i", "z", "_", "b", "o", "t">>,
       <<"f", "a", "k", "e">> >>

\* should_forward without the test of has_media.
should_forward_IgnoreMedia(message_text, has_media) ==
    IF message_text = <<>>
    THEN FALSE
    ELSE LET contains_number ==
                 \E n \in 1..Len(valid_numbers) :
                     Contains(message_text, valid_numbers[n])
             contains_forbidden ==
                 \E t \in 1..Len(forbidden_terms) :
                     Contains(Lower(message_text), Lower(forbidden_terms[t]))
         IN  contains_number /\ ~contains_forbidden

\* should_forward(message_text, has_media)
should_forward(message_text, has_media) ==
    IF message_text = <<>> \/ has_media
    THEN FALSE
    ELSE LET contains_number ==
                 \E n \in 1..Len(valid_numbers) :
                     Contains(message_text, valid_numbers[n])
             contains_forbidden ==
                 \E t \in 1..Len(forbidden_terms) :
                     Contains(Lower(message_text), Lower(forbidden_terms[t]))
         IN  contains_number /\ ~contains_forbidden

\* ----------------------------------------------------------- text cleaning
Letters ==
    {UpperCase[i] : i \in 1..Len(UpperCase)} \cup {LowerCase[i] : i \in 1..Len(LowerCase)}
Digits == {"0", "1", "2", "3", "4", "5", "6", "7", "8", "9"}
\* The characters str.strip() and str.rstrip() remove.
Whitespace == {" ", "\n", "\t"}
\* The characters \w matches.
IsWordChar(c) == c \in Letters \cup Digits \cup {"_"}
\* U+200E LEFT-TO-RIGHT MARK and U+202E RIGHT-TO-LEFT OVERRIDE, each one
\* character of a text: neither whitespace nor a word character, and
\* str.lower() leaves them alone.
LRM == "<U+200E>"
RLO == "<U+202E>"
DirectionalMarks == {LRM, RLO}

\* text.split('\n')
RECURSIVE SplitLines(_)
SplitLines(text) ==
    IF \E i \in 1..Len(text) : text[i] = "\n"
    THEN LET i == CHOOSE k \in 1..Len(text) :
                      text[k] = "\n" /\ \A j \in 1..(k - 1) : text[j] # "\n"
         IN  << SubSeq(text, 1, i - 1) >> \o SplitLines(SubSeq(text, i + 1, Len(text)))
    ELSE << text >>

\* '\n'.join(lines)
RECURSIVE JoinLines(_)
JoinLines(lines) ==
    IF lines = <<>> THEN <<>>
    ELSE IF Len(lines) = 1 THEN lines[1]
    ELSE lines[1] \o << "\n" >> \o JoinLines(Tail(lines))

\* line.rstrip(), line.lstrip(), line.strip()
RECURSIVE RStrip(_)
RStrip(line) ==
    IF line # <<>> /\ line[Len(line)] \in Whitespace
    THEN RStrip(SubSeq(line, 1, Len(line) - 1))
    ELSE line
RECURSIVE LStrip(_)
LStrip(line) ==
    IF line # <<>> /\ Head(line) \in Whitespace
    THEN LStrip(Tail(line))
    ELSE line
Strip(line) == LStrip(RStrip(line))

\* The timestamp patterns, D standing for \d; each ends with $.
D == "\\d"
timestamp_patterns ==
    << <<D, D, "-", D, D, "-", D, D, D, D, " ", D, D, ":", D, D, ":", D, D>>,
       <<D, D, "/", D, D, "/", D, D, D, D, " ", D, D, ":", D, D, ":", D, D>>,
       <<D, D, ":", D, D, ":", D, D, " ", D, D, "-", D, D, "-", D, D, D, D>>,
       <<D, D, ":", D, D, " ", D, D, "-", D, D, "-", D, D, D, D>>,
       <<D, D, D, D, "-", D, D, "-", D, D, " ", D, D, ":", D, D, ":", D, D>> >>

\* re.search(pattern, last_line): with the $ at its end the pattern has to
\* match the end of the line.
Search(pattern, line) ==
    /\ Len(line) >= Len(pattern)
    /\ \A k \in 1..Len(pattern) :
          LET c == line[Len(line) - Len(pattern) + k]
          IN  IF pattern[k] = D THEN c \in Digits ELSE c = pattern[k]

\* clean_message_text(text)
clean_message_text(text) ==
    IF text = <<>>
    THEN text
    ELSE LET split == SplitLines(text)
             stripped == [i \in 1..Len(split) |-> Strip(split[i])]
             lines == SelectSeq(stripped, LAMBDA l : l # <<>>)
             kept ==
                 IF /\ lines # <<>>
                    /\ \E p \in 1..Len(timestamp_patterns) :
                          Search(timestamp_patterns[p], lines[Len(lines)])
                 THEN SubSeq(lines, 1, Len(lines) - 1)
                 ELSE lines
         IN  JoinLines(kept)

forbidden_words ==
    << <<"#">>,
       <<"b", "i", "g">>,
       <<"b", "o", "x">>,
       <<"s", "l", "o", "t">>,
       <<"s", "q", "u", "a", "r", "e">>,
       <<"t", "h", "x", "b", "o", "x">>,
       <<"t", "h", "x">>,
       <<"a", "n", "g", "e", "l", "i", "a">>,
       <<"f", "a", "k", "e">> >>

\* \b after the first p characters of line.
Boundary(line, p) ==
    LET before == p >= 1 /\ IsWordChar(line[p])
        after == p < Len(line) /\ IsWordChar(line[p + 1])
    IN  before # after

\* word, in any case, stands after the first i characters of line and \b
\* follows it.
WordAt(line, i, word) ==
    /\ i + Len(word) <= Len(line)
    /\ Lower(SubSeq(line, i + 1, i + Len(word))) = Lower(word)
    /\ Boundary(line, i + Len(word))

\* The length of the match of #?word\b after the first i characters of
\* line, 0 when there is none; the optional # is taken when it can be.
MatchLen(line, i, word) ==
    IF i < Len(line) /\ line[i + 1] = "#" /\ WordAt(line, i + 1, word)
    THEN 1 + Len(word)
    ELSE IF WordAt(line, i, word) THEN Len(word) ELSE 0

\* re.sub(rf'#?{re.escape(word)}\b', '', line, flags=re.IGNORECASE), from
\* the first i characters on: the matches are removed from left to right.
RECURSIVE SubFrom(_, _, _)
SubFrom(line, i, word) ==
    IF i >= Len(line)
    THEN <<>>
    ELSE LET n == MatchLen(line, i, word)
         IN  IF n > 0
             THEN SubFrom(line, i + n, word)
             ELSE << line[i + 1] >> \o SubFrom(line, i + 1, word)

\* The loop over forbidden_list for one line.
RECURSIVE RemoveWords(_, _)
RemoveWords(line, words) ==
    IF words = <<>>
    THEN line
    ELSE RemoveWords(SubFrom(line, 0, Head(words)), Tail(words))

\* remove_forbidden_words(text, forbidden_list)
remove_forbidden_words(text, forbidden_list) ==
    IF text = <<>>
    THEN text
    ELSE LET split == SplitLines(text)
         IN  JoinLines([i \in 1..Len(split) |->
                           RStrip(RemoveWords(split[i], forbidden_list))])

\* Lines 201-202: the text forward_message cleans.
TextNormalizer(text) ==
    remove_forbidden_words(clean_message_text(text), forbidden_words)

\* Line 205: the text forward_message sends.
Trailer == <<" ", "\n", "*", "*", "#", "B", "i", "n", "a", "n", "c", "e", " ", "#", "R", "e", "d", "P", "a", "c", "k", "e", "t", "H", "u", "b", "*", "*", " ">>
formatted_text(text) == TextNormalizer(text) \o Trailer

\* The inbound events a run draws from: event.message.message (None reads as
\* "") and whether event.message.media is set.
InboundTexts ==
    { <<>>,
      <<"7", "7", "7">>,
      <<"7", "7", "7", " ", "T", "h", "x">>,
      <<"h", "i">> }
InboundEvents == [text : InboundTexts, media : BOOLEAN]

\* Inbound texts that the cleaning changes or that carry directional marks:
\* a trailing timestamp line, forbidden words, a left-to-right mark, a
\* right-to-left override.
CleanedTexts ==
    { <<>>,
      <<"7", "7", "7", " ", "T", "h", "x">>,
      <<"h", "i", "\n", "0", "1", "-", "0", "1", "-", "2", "0", "0", "0", " ", "1", "0", ":", "0", "0", ":", "0", "0">>,
      <<"7", "7", "7", " ", "#", "b", "i", "g", LRM>>,
      <<RLO, "h", "i">> }
CleanedEvents == [text : CleanedTexts, media : BOOLEAN]

\* ------------------------------------------------------------------- state
VARIABLES
    target_channels,    \* the configured destinations, fixed at start
    now,                \* time.time(), in seconds
    message_queue,      \* deque of queued events (message ids)
    is_forwarding,
    last_forward_time,
    events,             \* the admitted events, in arrival order; events[m].time
                        \* is handler m's local current_time
    hpc, hch, htimer,   \* handle_new_message(m): position, channel, sleep left
    dpc, dch, dtimer,   \* process_queue task created by handler m: the same
    dev,                \* ... and the event it popped and is forwarding
    dispatched,         \* message ids in the order forward_message began
    sent,               \* per channel, the client.send_message calls in order
    waited,             \* seconds each queued event has spent in the queue
    skipped,            \* the events the handler skipped, in arrival order
    conn,               \* the client's connection state
    rpc, rtimer         \* handle_raw(r): position and sleep left

vars ==
    << target_channels, now, message_queue, is_forwarding, last_forward_time,
       events, hpc, hch, htimer, dpc, dch, dtimer, dev, dispatched, sent,
       waited, skipped, conn, rpc, rtimer >>

\* What handle_raw works on.
supervisor == << conn, rpc, rtimer >>

\* The state after the module is loaded with TARGET_CHANNELS = chs.
InitWith(chs) ==
    /\ target_channels = chs
    /\ now = StartTime
    /\ message_queue = <<>>
    /\ is_forwarding = FALSE
    /\ last_forward_time = 0
    /\ events = <<>>
    /\ hpc = [m \in Msgs |-> "none"]
    /\ hch = [m \in Msgs |-> 0]
    /\ htimer = [m \in Msgs |-> 0]
    /\ dpc = [m \in Msgs |-> "none"]
    /\ dch = [m \in Msgs |-> 0]
    /\ dtimer = [m \in Msgs |-> 0]
    /\ dev = [m \in Msgs |-> 0]
    /\ dispatched = <<>>
    /\ sent = [c \in 1..Len(chs) |-> <<>>]
    /\ waited = [m \in Msgs |-> 0]
    /\ skipped = <<>>
    /\ conn = "connected"
    /\ rpc = [r \in Raws |-> "none"]
    /\ rtimer = [r \in Raws |-> 0]

Init == InitWith(OneChannel)

\* --------------------------------------------------------- forward_message
\* One turn of the loop over target_channels: client.send_message to channel
\* number c, which succeeds (ok) or raises, logged in call order.
SendTo(c, m, ok) ==
    sent' = [sent EXCEPT ![c] = Append(@, [msg |-> m, ok |-> ok])]

\* The sleep that follows a send.
Pause(ok) == IF ok THEN SendPause ELSE FailPause

\* forward_message(event) is entered: the call runs up to its first send.
BeginForward(m, ok) ==
    /\ dispatched' = Append(dispatched, m)
    /\ SendTo(1, m, ok)

\* ------------------------------------------------------ handle_new_message
\* DispatchNow with the window's edge counted as outside it.
DispatchNow_Inclusive(current_time) ==
    ~is_forwarding \/ (current_time - last_forward_time >= rate_limit)

\* The test of line 183.
DispatchNow(current_time) ==
    ~is_forwarding \/ (current_time - last_forward_time > rate_limit)

\* The else branch: message_queue.append(event).
Enqueue(m) ==
    /\ message_queue' = Append(message_queue, m)
    /\ hpc' = [hpc EXCEPT ![m] = "queued"]
    /\ UNCHANGED << hch, htimer, dispatched, sent >>

\* The if branch up to the first suspension inside forward_message.
DispatchImmediately(m, ok) ==
    /\ BeginForward(m, ok)
    /\ hpc' = [hpc EXCEPT ![m] = "fwd"]
    /\ hch' = [hch EXCEPT ![m] = 1]
    /\ htimer' = [htimer EXCEPT ![m] = Pause(ok)]
    /\ UNCHANGED message_queue

\* Admitted with the filter given the text forward_message would send.
Admitted_Normalized(ev) == should_forward(TextNormalizer(ev.text), ev.media)

\* Lines 178-181: the filter is given event.message.message (None reads as
\* "") as received, and event.message.media.
Admitted(ev) == should_forward(ev.text, ev.media)

\* The else branch of line 181: the event is skipped, which the log records
\* (line 192), and nothing else happens.
Skip(ev) ==
    /\ skipped' = Append(skipped, ev)
    /\ UNCHANGED << target_channels, now, message_queue, is_forwarding,
                    last_forward_time, events, hpc, hch, htimer, dpc, dch,
                    dtimer, dev, dispatched, sent, waited >>

\* An inbound event is handled up to the handler's first suspension; limit
\* bounds the number of events handled.
Arrive(ev, ok, limit) ==
    /\ Len(events) + Len(skipped) < limit
    /\ now < StartTime + MaxTime
    /\ IF Admitted(ev)
       THEN LET m == Len(events) + 1
                current_time == now
            IN  /\ events' = Append(events, [text |-> ev.text, media |-> ev.media,
                                             time |-> current_time])
                /\ IF DispatchNow(current_time)
                   THEN DispatchImmediately(m, ok)
                   ELSE Enqueue(m)
                /\ UNCHANGED << target_channels, now, is_forwarding,
                                last_forward_time, dpc, dch, dtimer, dev, waited,
                                skipped >>
       ELSE Skip(ev)
    /\ UNCHANGED supervisor

\* AfterForward without line 187: no process_queue task is created.
AfterForward_NoTask(m) ==
    /\ last_forward_time' = events[m].time
    /\ is_forwarding' = TRUE
    /\ hpc' = [hpc EXCEPT ![m] = "forwarded"]
    /\ hch' = [hch EXCEPT ![m] = 0]
    /\ UNCHANGED << dpc, htimer, dispatched, sent >>

\* Lines 185-187, after forward_message returned.
AfterForward(m) ==
    /\ last_forward_time' = events[m].time
    /\ is_forwarding' = TRUE
    /\ dpc' = [dpc EXCEPT ![m] = "new"]
    /\ hpc' = [hpc EXCEPT ![m] = "forwarded"]
    /\ hch' = [hch EXCEPT ![m] = 0]
    /\ UNCHANGED << htimer, dispatched, sent >>

\* The outcome of forward_message's latest send of m, to channel number c.
LastSendOk(c, m) ==
    \E i \in 1..Len(sent[c]) : sent[c][i].msg = m /\ sent[c][i].ok

\* HandlerResume with a loop that ends at the first send that raised.
HandlerResume_StopOnFail(m, ok) ==
    /\ hpc[m] = "fwd"
    /\ htimer[m] = 0
    /\ IF hch[m] < Len(target_channels) /\ LastSendOk(hch[m], m)
       THEN /\ SendTo(hch[m] + 1, m, ok)
            /\ hch' = [hch EXCEPT ![m] = @ + 1]
            /\ htimer' = [htimer EXCEPT ![m] = Pause(ok)]
            /\ UNCHANGED << hpc, dpc, is_forwarding, last_forward_time, dispatched >>
       ELSE AfterForward(m)
    /\ UNCHANGED << target_channels, now, message_queue, events, dch, dtimer,
                    dev, waited, skipped >>
    /\ UNCHANGED supervisor

\* The handler wakes from the sleep after a send.
HandlerResume(m, ok) ==
    /\ hpc[m] = "fwd"
    /\ htimer[m] = 0
    /\ IF hch[m] < Len(target_channels)
       THEN /\ SendTo(hch[m] + 1, m, ok)
            /\ hch' = [hch EXCEPT ![m] = @ + 1]
            /\ htimer' = [htimer EXCEPT ![m] = Pause(ok)]
            /\ UNCHANGED << hpc, dpc, is_forwarding, last_forward_time, dispatched >>
       ELSE AfterForward(m)
    /\ UNCHANGED << target_channels, now, message_queue, events, dch, dtimer,
                    dev, waited, skipped >>
    /\ UNCHANGED supervisor

\* ----------------------------------------------------------- process_queue
\* LoopHead without line 232: the task ends and leaves the flag as it is.
LoopHead_KeepFlag(d, q) ==
    IF q # <<>>
    THEN /\ dpc' = [dpc EXCEPT ![d] = "sleep"]
         /\ dtimer' = [dtimer EXCEPT ![d] = queue_delay]
         /\ UNCHANGED is_forwarding
    ELSE /\ dpc' = [dpc EXCEPT ![d] = "done"]
         /\ UNCHANGED << is_forwarding, dtimer >>

\* The loop test of line 228 on queue q, and line 232 when it fails.
LoopHead(d, q) ==
    IF q # <<>>
    THEN /\ dpc' = [dpc EXCEPT ![d] = "sleep"]
         /\ dtimer' = [dtimer EXCEPT ![d] = queue_delay]
         /\ UNCHANGED is_forwarding
    ELSE /\ dpc' = [dpc EXCEPT ![d] = "done"]
         /\ is_forwarding' = FALSE
         /\ UNCHANGED dtimer

\* The task created at line 187 runs for the first time.
DrainStart(d) ==
    /\ dpc[d] = "new"
    /\ LoopHead(d, message_queue)
    /\ UNCHANGED << target_channels, now, message_queue, last_forward_time,
                    events, hpc, hch, htimer, dch, dev, dispatched, sent, waited,
                    skipped >>
    /\ UNCHANGED supervisor

\* PopAndForward reading message_queue[0] and leaving it in the queue.
PopAndForward_Peek(d, ok) ==
    IF message_queue = <<>>
    THEN /\ dpc' = [dpc EXCEPT ![d] = "crashed"]
         /\ UNCHANGED << message_queue, dch, dtimer, dev, dispatched, sent, waited >>
    ELSE LET m == Head(message_queue)
         IN  /\ dev' = [dev EXCEPT ![d] = m]
             /\ BeginForward(m, ok)
             /\ dpc' = [dpc EXCEPT ![d] = "fwd"]
             /\ dch' = [dch EXCEPT ![d] = 1]
             /\ dtimer' = [dtimer EXCEPT ![d] = Pause(ok)]
             /\ UNCHANGED << message_queue, waited >>

\* Lines 230-231: message_queue.popleft(), which raises IndexError on an
\* empty deque and ends the task, then forward_message up to its first send.
PopAndForward(d, ok) ==
    IF message_queue = <<>>
    THEN /\ dpc' = [dpc EXCEPT ![d] = "crashed"]
         /\ UNCHANGED << message_queue, dch, dtimer, dev, dispatched, sent, waited >>
    ELSE LET m == Head(message_queue)
         IN  /\ message_queue' = Tail(message_queue)
             /\ waited' = [waited EXCEPT ![m] = 0]
             /\ dev' = [dev EXCEPT ![d] = m]
             /\ BeginForward(m, ok)
             /\ dpc' = [dpc EXCEPT ![d] = "fwd"]
             /\ dch' = [dch EXCEPT ![d] = 1]
             /\ dtimer' = [dtimer EXCEPT ![d] = Pause(ok)]

\* The task wakes from asyncio.sleep(queue_delay).
DrainWake(d, ok) ==
    /\ dpc[d] = "sleep"
    /\ dtimer[d] = 0
    /\ PopAndForward(d, ok)
    /\ UNCHANGED << target_channels, now, is_forwarding, last_forward_time,
                    events, hpc, hch, htimer, skipped >>
    /\ UNCHANGED supervisor

\* The task wakes from the sleep after a send.
DrainResume(d, ok) ==
    /\ dpc[d] = "fwd"
    /\ dtimer[d] = 0
    /\ IF dch[d] < Len(target_channels)
       THEN /\ SendTo(dch[d] + 1, dev[d], ok)
            /\ dch' = [dch EXCEPT ![d] = @ + 1]
            /\ dtimer' = [dtimer EXCEPT ![d] = Pause(ok)]
            /\ UNCHANGED << dpc, is_forwarding, dev >>
       ELSE /\ LoopHead(d, message_queue)
            /\ dch' = [dch EXCEPT ![d] = 0]
            /\ dev' = [dev EXCEPT ![d] = 0]
            /\ UNCHANGED sent
    /\ UNCHANGED << target_channels, now, message_queue, last_forward_time,
                    events, hpc, hch, htimer, dispatched, waited, skipped >>
    /\ UNCHANGED supervisor

\* -------------------------------------------------------------- handle_raw
\* What handle_new_message, forward_message and process_queue work on.
delivery ==
    << target_channels, now, message_queue, is_forwarding, last_forward_time,
       events, hpc, hch, htimer, dpc, dch, dtimer, dev, dispatched, sent,
       waited, skipped >>

\* The connection drops and handle_raw gets the UpdateConnectionState event
\* with state disconnected: it logs and starts asyncio.sleep(5).
Disconnect(r) ==
    /\ conn = "connected"
    /\ rpc[r] = "none"
    /\ \A q \in Raws : q < r => rpc[q] # "none"
    /\ conn' = "disconnected"
    /\ rpc' = [rpc EXCEPT ![r] = "sleep"]
    /\ rtimer' = [rtimer EXCEPT ![r] = ReconnectDelay]
    /\ UNCHANGED delivery

\* Reconnect which starts afresh once connected: the queue and the flag are
\* reset.
Reconnect_Reset(r, ok) ==
    /\ rpc[r] = "sleep"
    /\ rtimer[r] = 0
    /\ IF ok
       THEN /\ conn' = "connected"
            /\ rpc' = [rpc EXCEPT ![r] = "done"]
            /\ message_queue' = <<>>
            /\ is_forwarding' = FALSE
       ELSE /\ rpc' = [rpc EXCEPT ![r] = "raised"]
            /\ UNCHANGED << conn, message_queue, is_forwarding >>
    /\ UNCHANGED << target_channels, now, last_forward_time, events, hpc, hch,
                    htimer, dpc, dch, dtimer, dev, dispatched, sent, waited,
                    skipped, rtimer >>

\* Line 243: the handler wakes and awaits client.connect(), which returns
\* (ok) or raises. Nothing in handle_raw catches what it raises: the handler
\* ends there.
Reconnect(r, ok) ==
    /\ rpc[r] = "sleep"
    /\ rtimer[r] = 0
    /\ IF ok
       THEN /\ conn' = "connected"
            /\ rpc' = [rpc EXCEPT ![r] = "done"]
       ELSE /\ rpc' = [rpc EXCEPT ![r] = "raised"]
            /\ UNCHANGED conn
    /\ UNCHANGED rtimer
    /\ UNCHANGED delivery

\* -------------------------------------------------------------------- time
InQueue(m) == \E i \in 1..Len(message_queue) : message_queue[i] = m

Dec(t) == IF t > 0 THEN t - 1 ELSE 0

\* One second passes: every pending sleep has one second less to go. A task
\* made by create_task is ready at once and runs before the loop waits again;
\* a sleep or a send whose time is up may still be resumed later.
Tick ==
    /\ \A d \in Msgs : dpc[d] # "new"
    /\ \/ now < StartTime + MaxTime
       \/ \E m \in Msgs : htimer[m] > 0 \/ dtimer[m] > 0
       \/ \E r \in Raws : rtimer[r] > 0
       \/ \E m \in Msgs : InQueue(m) /\ waited[m] < queue_delay
    /\ now' = IF now < StartTime + MaxTime THEN now + 1 ELSE now
    /\ htimer' = [m \in Msgs |-> Dec(htimer[m])]
    /\ dtimer' = [m \in Msgs |-> Dec(dtimer[m])]
    /\ rtimer' = [r \in Raws |-> Dec(rtimer[r])]
    /\ waited' = [m \in Msgs |->
                    IF InQueue(m) /\ waited[m] < queue_delay
                    THEN waited[m] + 1 ELSE waited[m]]
    /\ UNCHANGED << target_channels, message_queue, is_forwarding,
                    last_forward_time, events, hpc, hch, dpc, dch, dev,
                    dispatched, sent, skipped, conn, rpc >>

\* ----------------------------------------------------------- specification
\* The steps of the event loop, with at most limit admitted events and the
\* sends' outcomes drawn from oks.
Handle(limit, oks) == \E ev \in InboundEvents, ok \in oks : Arrive(ev, ok, limit)
HandleCleaned(limit, oks) ==
    \E ev \in CleanedEvents, ok \in oks : Arrive(ev, ok, limit)
HandlerStep(oks) == \E m \in Msgs, ok \in oks : HandlerResume(m, ok)
DrainBegin == \E d \in Msgs : DrainStart(d)
DrainPop(oks) == \E d \in Msgs, ok \in oks : DrainWake(d, ok)
DrainStep(oks) == \E d \in Msgs, ok \in oks : DrainResume(d, ok)

Next ==
    \/ Handle(MaxMsgs, BOOLEAN)
    \/ HandlerStep(BOOLEAN)
    \/ DrainBegin
    \/ DrainPop(BOOLEAN)
    \/ DrainStep(BOOLEAN)
    \/ Tick

Spec == Init /\ [][Next]_vars

\* The runs with one more message in which every send succeeds.
NextDeep ==
    \/ Handle(MaxMsgsDeep, {TRUE})
    \/ HandlerStep({TRUE})
    \/ DrainBegin
    \/ DrainPop({TRUE})
    \/ DrainStep({TRUE})
    \/ Tick

SpecDeep == Init /\ [][NextDeep]_vars

\* The runs with several destinations. With three of them a call lasts
\* longer than rate_limit, every later message passes the test of line 183
\* and the queue stays empty; with two the queue is used.
InitFanout == \E chs \in {TwoChannels, ThreeChannels} : InitWith(chs)

NextFanout ==
    \/ Handle(MaxMsgsFanout, BOOLEAN)
    \/ HandlerStep(BOOLEAN)
    \/ DrainBegin
    \/ DrainPop(BOOLEAN)
    \/ DrainStep(BOOLEAN)
    \/ Tick

SpecFanout == InitFanout /\ [][NextFanout]_vars

\* The runs over texts that the cleaning changes.
NextText ==
    \/ HandleCleaned(MaxMsgsText, BOOLEAN)
    \/ HandlerStep(BOOLEAN)
    \/ DrainBegin
    \/ DrainPop(BOOLEAN)
    \/ DrainStep(BOOLEAN)
    \/ Tick

SpecText == Init /\ [][NextText]_vars

\* The runs in which the connection drops.
RawEvent == \E r \in Raws : Disconnect(r)
RawStep(oks) == \E r \in Raws, ok \in oks : Reconnect(r, ok)

NextConn ==
    \/ Handle(MaxMsgsConn, BOOLEAN)
    \/ HandlerStep(BOOLEAN)
    \/ DrainBegin
    \/ DrainPop(BOOLEAN)
    \/ DrainStep(BOOLEAN)
    \/ RawEvent
    \/ RawStep(BOOLEAN)
    \/ Tick

SpecConn == Init /\ [][NextConn]_vars

\* The event loop runs every coroutine that is ready, and time passes.
Fairness ==
    /\ WF_vars(HandlerStep(BOOLEAN))
    /\ WF_vars(DrainBegin)
    /\ WF_vars(DrainPop(BOOLEAN))
    /\ WF_vars(DrainStep(BOOLEAN))
    /\ WF_vars(Tick)

LiveSpec == Spec /\ Fairness

\* ------------------------------------------------------------------ claims
\* The forward_message calls in flight, by the task that made them.
HandlersForwarding == {m \in Msgs : hpc[m] = "fwd"}
DrainsForwarding == {d \in Msgs : dpc[d] = "fwd"}
InFlight == Cardinality(HandlersForwarding) + Cardinality(DrainsForwarding)

\* The process_queue tasks created and not yet finished.
LiveDrains == {d \in Msgs : dpc[d] \in {"new", "sleep", "fwd"}}

\* Message m has been handed to forward_message.
Dispatched(m) == \E i \in 1..Len(dispatched) : dispatched[i] = m
\* The place of m's dispatch among the dispatches.
DispatchIndex(m) == CHOOSE i \in 1..Len(dispatched) : dispatched[i] = m
\* Handler m took the if branch of line 183.
Immediate(m) == hpc[m] \in {"fwd", "forwarded"}
Arrived(m) == m <= Len(events)

\* C1: in every reachable state at most one drain task (a process_queue task
\* created and not yet finished) exists.
C1_SingleDrainTask == Cardinality(LiveDrains) <= 1

\* C2: in every reachable state is_forwarding is true if and only if a
\* forward_message call is in progress or message_queue is not empty.
C2_FlagIffBusy == is_forwarding <=> (InFlight > 0 \/ message_queue # <<>>)

\* C3: for every destination, the sends to it happen in admission order: a
\* message admitted earlier is never sent to a destination after one that
\* was admitted later.
C3_PerDestinationOrder ==
    \A c \in DOMAIN sent :
        \A i, j \in 1..Len(sent[c]) :
            i < j => sent[c][i].msg <= sent[c][j].msg

\* C4: in every reachable state at most one forward_message call is in
\* flight.
C4_OneForwardInFlight == InFlight <= 1

\* C5: messages that all arrive within rate_limit seconds of the first of
\* them are dispatched in arrival order: of two such messages, the later
\* one's dispatch never begins before the earlier one's.
C5_WindowFifo ==
    \A i, j \in Msgs :
        (/\ i < j
         /\ Arrived(j)
         /\ events[j].time - events[i].time <= rate_limit
         /\ Dispatched(j))
        => (Dispatched(i) /\ DispatchIndex(i) < DispatchIndex(j))

\* The number of forward_message calls made for m, and of sends of m to
\* channel number c.
DispatchCount(m) == Cardinality({i \in 1..Len(dispatched) : dispatched[i] = m})
SendCount(c, m) == Cardinality({i \in 1..Len(sent[c]) : sent[c][i].msg = m})

\* C6: every admitted message is eventually handed to forward_message,
\* immediately or after being queued, when sends and sleeps end and the
\* event loop keeps running.
C6_EventuallyDispatched == \A m \in Msgs : Arrived(m) ~> Dispatched(m)

\* A queued message has been dispatched and the system is idle again.
C6_Witness ==
    /\ \E m \in Msgs : hpc[m] = "queued" /\ Dispatched(m)
    /\ message_queue = <<>>
    /\ LiveDrains = {}
    /\ ~is_forwarding

\* C7: forward_message is called at most once for every admitted message,
\* and every destination gets at most one send of it.
C7_AtMostOnce ==
    \A m \in Msgs :
        /\ DispatchCount(m) <= 1
        /\ \A c \in DOMAIN sent : SendCount(c, m) <= 1

\* One message went out immediately, another through the queue, and every
\* call has returned.
C7_Witness ==
    /\ \E m \in Msgs : hpc[m] = "forwarded" /\ DispatchCount(m) = 1
    /\ \E m \in Msgs : hpc[m] = "queued" /\ DispatchCount(m) = 1 /\ ~InQueue(m)
    /\ InFlight = 0

\* C8: when an admitted message arrives at most rate_limit seconds after the
\* admitted message before it, and that one was dispatched immediately, the
\* second is appended to message_queue and not dispatched immediately.
C8_SecondIsQueued ==
    \A m \in Msgs :
        (/\ m > 1
         /\ Arrived(m)
         /\ Immediate(m - 1)
         /\ events[m].time - events[m - 1].time <= rate_limit)
        => hpc[m] = "queued"

\* C9: a drain task pops an event only when the event has been in the queue
\* for at least queue_delay seconds.
C9_PopAfterFullDelay ==
    [][\A d \in Msgs :
          (dpc[d] = "sleep" /\ dpc'[d] = "fwd")
          => waited[Head(message_queue)] >= queue_delay]_vars

\* C10: the handler of an admitted message M dispatches M at once, without
\* queueing it, when is_forwarding is false or now - last_forward_time >
\* rate_limit, and then sets last_forward_time to M's arrival time and
\* is_forwarding to true; otherwise it appends M to message_queue and does
\* not dispatch it. When is_forwarding is false at M's arrival the queue is
\* empty and the handler leaves it so.
C10_HandlerContract ==
    [][/\ (Len(events') = Len(events) + 1) =>
            LET m == Len(events')
            IN  IF ~is_forwarding \/ (now - last_forward_time > rate_limit)
                THEN /\ hpc'[m] = "fwd"
                     /\ dispatched' = Append(dispatched, m)
                     /\ message_queue' = message_queue
                     /\ ~is_forwarding => message_queue' = <<>>
                ELSE /\ hpc'[m] = "queued"
                     /\ message_queue' = Append(message_queue, m)
                     /\ dispatched' = dispatched
                     /\ UNCHANGED << is_forwarding, last_forward_time >>
       /\ \A m \in Msgs :
            hpc[m] = "fwd" =>
                \/ hpc'[m] = "fwd"
                \/ /\ hpc'[m] = "forwarded"
                   /\ last_forward_time' = events[m].time
                   /\ is_forwarding' = TRUE
                   /\ message_queue' = message_queue
      ]_vars

\* Both branches have been taken: one handler has finished its immediate
\* dispatch and written the rate state, another has queued its message.
C10_Witness ==
    /\ \E m \in Msgs :
          hpc[m] = "forwarded" /\ last_forward_time = events[m].time
    /\ is_forwarding
    /\ \E m \in Msgs : hpc[m] = "queued" /\ InQueue(m)

\* The forward_message call for m has returned.
CallReturned(m) ==
    /\ Dispatched(m)
    /\ hpc[m] # "fwd"
    /\ \A d \in Msgs : ~(dpc[d] = "fwd" /\ dev[d] = m)

\* C11: in one forward_message call every destination of target_channels is
\* attempted exactly once, in configured order, whatever sends failed before:
\* no destination gets a second send of the message, a destination is
\* attempted only when every destination before it in the list has been, and
\* when the call has returned every destination has been attempted.
C11_EveryDestinationOnce ==
    \A m \in Msgs :
        Dispatched(m) =>
            /\ \A c \in DOMAIN sent : SendCount(c, m) <= 1
            /\ \A c \in DOMAIN sent :
                   (c > 1 /\ SendCount(c, m) = 1) => SendCount(c - 1, m) = 1
            /\ CallReturned(m) => \A c \in DOMAIN sent : SendCount(c, m) = 1

\* A call over three destinations has returned: the send to the second one
\* failed, the sends to the first and the third succeeded.
C11_Witness ==
    /\ Len(target_channels) = 3
    /\ \E m \in Msgs :
          /\ CallReturned(m)
          /\ [msg |-> m, ok |-> TRUE] \in {sent[1][i] : i \in 1..Len(sent[1])}
          /\ [msg |-> m, ok |-> FALSE] \in {sent[2][i] : i \in 1..Len(sent[2])}
          /\ [msg |-> m, ok |-> TRUE] \in {sent[3][i] : i \in 1..Len(sent[3])}

\* The four ways for a message to be rejected: empty text, media present, no
\* required term, a forbidden term present.
RejectedMessage(ev) ==
    \/ ev.text = <<>>
    \/ ev.media
    \/ ~\E n \in 1..Len(valid_numbers) : Contains(ev.text, valid_numbers[n])
    \/ \E t \in 1..Len(forbidden_terms) :
           Contains(Lower(ev.text), forbidden_terms[t])

\* C12: a rejected message is neither dispatched nor enqueued (it is never
\* among the admitted events), and the step that handles it leaves
\* message_queue, is_forwarding and last_forward_time unchanged, starts no
\* drain task and sends nothing.
C12_RejectedLeavesNoTrace ==
    [][/\ (Len(events') = Len(events) + 1) =>
            ~RejectedMessage(events'[Len(events')])
       /\ (Len(skipped') = Len(skipped) + 1
            /\ RejectedMessage(skipped'[Len(skipped')])) =>
            UNCHANGED << message_queue, is_forwarding, last_forward_time,
                         events, hpc, dpc, dispatched, sent >>
      ]_vars

\* A message with a required term and media has been skipped, with a message
\* waiting in the queue.
C12_Witness ==
    /\ \E i \in 1..Len(skipped) :
          skipped[i].media /\ skipped[i].text = <<"7", "7", "7">>
    /\ message_queue # <<>>
    /\ is_forwarding

\* C13: after a disconnect the supervisor waits and reconnects, retries a
\* failed attempt (bounded, with a doubling delay) and ends in Failed when
\* the retries are used up: so whenever no handle_raw invocation is waiting
\* to reconnect, the connection is Connected or the supervisor is Failed.
C13_ReconnectSettles ==
    (\A r \in Raws : rpc[r] # "sleep") => conn \in {"connected", "failed"}

\* C14: no step of handle_raw (the disconnect event, the wait, the call of
\* client.connect(), its success or failure) changes message_queue,
\* is_forwarding or last_forward_time, nor the position, the timer or the
\* event in hand of a drain task: a drain task running before the disconnect
\* goes on draining the same queue.
C14_SupervisorFrame ==
    [][(rpc' # rpc \/ conn' # conn) =>
          UNCHANGED << message_queue, is_forwarding, last_forward_time,
                       dpc, dch, dtimer, dev, waited >>
      ]_vars

\* After a disconnect and a reconnect, a drain task has popped a message
\* that was queued and is forwarding it, while a second disconnect is
\* being handled.
C14_Witness ==
    /\ \E r \in Raws : rpc[r] \in {"done", "raised"}
    /\ \E r \in Raws : rpc[r] = "sleep"
    /\ \E d \in Msgs : dpc[d] = "fwd" /\ dev[d] # 0 /\ hpc[dev[d]] = "queued"

\* C15 as stated: the admission decision is evaluated on the normalized text:
\* an inbound message is admitted exactly when should_forward holds of the
\* output of the text normalizer and the media flag.
C15_FilterOnNormalizedText ==
    [][/\ (Len(events') = Len(events) + 1) =>
            LET ev == events'[Len(events')]
            IN  should_forward(TextNormalizer(ev.text), ev.media)
       /\ (Len(skipped') = Len(skipped) + 1) =>
            LET ev == skipped'[Len(skipped')]
            IN  ~should_forward(TextNormalizer(ev.text), ev.media)
      ]_vars

\* C15 amended: the admission decision is evaluated on the text as received:
\* an inbound message is admitted exactly when should_forward holds of
\* event.message.message (None read as "") and the media flag, not of the
\* output of the text normalizer.
C15_FilterOnRawText ==
    [][/\ (Len(events') = Len(events) + 1) =>
            LET ev == events'[Len(events')]
            IN  should_forward(ev.text, ev.media)
       /\ (Len(skipped') = Len(skipped) + 1) =>
            LET ev == skipped'[Len(skipped')]
            IN  ~should_forward(ev.text, ev.media)
      ]_vars

\* A message that only the raw text admits (the required term is in its
\* timestamp line) has been admitted, and one that only the raw text rejects
\* (its forbidden term is a word the cleaning removes) has been skipped.
C15_Witness ==
    /\ \E m \in 1..Len(events) :
          /\ should_forward(events[m].text, events[m].media)
          /\ ~should_forward(TextNormalizer(events[m].text), events[m].media)
    /\ \E i \in 1..Len(skipped) :
          /\ ~should_forward(skipped[i].text, skipped[i].media)
          /\ should_forward(TextNormalizer(skipped[i].text), skipped[i].media)

\* A text has one of the directional marks.
HasMark(text) == \E k \in 1..Len(text) : text[k] \in DirectionalMarks

\* C16: the text sent to a destination (clean_message_text, then
\* remove_forbidden_words, then the trailer) contains no directional mark,
\* whatever marks the inbound text had.
C16_NoMarksInSentText ==
    \A c \in DOMAIN sent :
        \A i \in 1..Len(sent[c]) :
            ~HasMark(formatted_text(events[sent[c][i].msg].text))

\* C17: the decision to dispatch immediately and the writes of the rate
\* state are one step: the step in which a handler takes the if branch of
\* line 183 also sets is_forwarding to true and last_forward_time to the
\* message's arrival time, so that nothing runs in between.
C17_DecideAndWriteInOneStep ==
    [][\A m \in Msgs :
          (hpc[m] = "none" /\ hpc'[m] \in {"fwd", "forwarded"})
          => (is_forwarding' /\ last_forward_time' = events'[m].time)
      ]_vars

\* The idle state: nothing queued, no drain task alive, no dispatch in
\* progress, the flag down.
Idle ==
    /\ message_queue = <<>>
    /\ LiveDrains = {}
    /\ InFlight = 0
    /\ ~is_forwarding

\* C18: a drain task that finds the queue empty at its loop test sets
\* is_forwarding to false and ends; and once admitted messages stop
\* arriving, the system reaches the idle state and stays there.
C18_DrainsToIdle ==
    /\ [][\A d \in Msgs :
             (dpc[d] # "done" /\ dpc'[d] = "done")
             => (message_queue = <<>> /\ ~is_forwarding')]_vars
    /\ <>[]Idle

\* The system is idle after the queue was used: a message went through the
\* queue, a drain task ended at its loop test, and every admitted message
\* has been dispatched.
C18_Witness ==
    /\ Idle
    /\ Len(events) = MaxMsgs
    /\ \A m \in 1..Len(events) : Dispatched(m)
    /\ \E m \in Msgs : hpc[m] = "queued"
    /\ \E d \in Msgs : dpc[d] = "done"

\* C19: no drain task pops from an empty queue: none ends with the
\* IndexError of popleft.
C19_NoPopFromEmptyQueue == \A d \in Msgs : dpc[d] # "crashed"

\* C20: last_forward_time never decreases: every write stores a value
\* greater than or equal to the one it replaces.
C20_LastForwardTimeMonotone ==
    [][last_forward_time' >= last_forward_time]_vars

====
